---- MODULE Spec2Model ----
(***************************************************************************)
(* A model of eval-lib/databases/influx/influx_db.py: the class            *)
(* InfluxDBWrapper, its constructor, _convert_to_nanoseconds and           *)
(* get_procstat_result.                                                    *)
(*                                                                         *)
(* Python values are records tagged with their Python type.  A Python     *)
(* float has one decimal digit: units + tenths/10, tenths in 0..9.  An     *)
(* evaluation either yields a value or raises; Ok and Raise build the two  *)
(* outcomes.  A multi-line string is the sequence of its lines.            *)
(***************************************************************************)
EXTENDS Integers, Sequences, FiniteSets, TLC

VARIABLES
    client,   \* self.client: the handle made by __init__
    call      \* <<>> before the first call; afterwards <<r>>, r the record of
              \* the latest call of get_procstat_result: its arguments, the
              \* queries the store received, the store's response, the state
              \* of sys.stdout, what the call printed and how the call ended

vars == <<client, call>>

-----------------------------------------------------------------------------
(* Bounds of the model *)

\* timestamps range over -MaxTime .. MaxTime seconds
MaxTime == 1

\* the store's row iterator yields at most MaxRows rows
MaxRows == 2

-----------------------------------------------------------------------------
(* Python values and outcomes *)

None == [type |-> "NoneType"]

PyInt(n) == [type |-> "int", v |-> n]

\* the float tenths/10, as units + tenths/10 with tenths in 0..9
PyFloat(tenths) ==
    [type |-> "float", tenths |-> tenths % 10, units |-> tenths \div 10]

PyStr(s) == [type |-> "str", s |-> s]

\* an object of a class that defines nothing but a __format__ that raises
\* ValueError: interpolating it in an f-string fails
Unformattable == [type |-> "Unformattable"]

Exception(class, message) == [class |-> class, message |-> message]

Ok(value) == [value |-> value, raised |-> FALSE, exc |-> Exception("", "")]

Raise(exc) == [value |-> None, raised |-> TRUE, exc |-> exc]

\* The exceptions of the model.  TypeError, ValueError, TransportError and
\* RuntimeError are ordinary subclasses of Exception; UnprintableError is a
\* subclass of Exception whose __str__ raises RuntimeError; KeyboardInterrupt
\* derives from BaseException only.
IsException(exc) == exc.class # "KeyboardInterrupt"

\* str(e), as the f-string of the handler evaluates it
StrOfException(exc) ==
    IF exc.class = "UnprintableError"
    THEN Raise(Exception("RuntimeError", "__str__ failed"))
    ELSE Ok(exc.message)

\* "{value}" in an f-string: format(value, ""), which is str(value) for the
\* built-in types (repr for a float)
Format(value) ==
    CASE value.type = "int" -> Ok(ToString(value.v))
      [] value.type = "str" -> Ok(value.s)
      [] value.type = "NoneType" -> Ok("None")
      [] value.type = "float" ->
            IF value.units >= 0 \/ value.tenths = 0
            THEN Ok(ToString(value.units) \o "." \o ToString(value.tenths))
            ELSE Ok("-" \o ToString(-value.units - 1) \o "."
                        \o ToString(10 - value.tenths))
      [] value.type = "Unformattable" ->
            Raise(Exception("ValueError", "unsupported format string"))

\* value * 1_000_000_000, as Python's * decides it by the type of value.  The
\* repetition of a non-empty str (10^9 copies) is not represented.
Times1e9(value) ==
    CASE value.type = "int" -> Ok(PyInt(value.v * 1000000000))
      [] value.type = "float" ->
            Ok([type |-> "float",
                tenths |-> 0,
                units |-> value.units * 1000000000 + value.tenths * 100000000])
      [] value.type = "str" /\ value.s = "" -> Ok(PyStr(""))
      [] value.type \in {"NoneType", "Unformattable"} ->
            Raise(Exception("TypeError",
                            "unsupported operand type(s) for *: '"
                                \o value.type \o "' and 'int'"))

-----------------------------------------------------------------------------
(* The inputs of the model *)

Timestamps == {PyInt(n) : n \in (-MaxTime)..MaxTime} \cup {None}

\* a name that holds quote characters, and an object that cannot be formatted
ProcessNames == {PyStr("nginx' OR '1'='1"), Unformattable}

Row(cpu, mem) == [max_cpu_usage |-> cpu, max_mem_usage |-> mem]

\* rows a store can yield: a usage summary, and a row of nulls
Rows == {Row(PyFloat(125), PyFloat(331)), Row(None, None)}

RowSeqs == UNION {[1..n -> Rows] : n \in 0..MaxRows}

\* what the store can raise
StoreErrors == {"TransportError", "UnprintableError", "KeyboardInterrupt"}

\* the exception object of a store error
StoreException(name) ==
    Exception(name, IF name = "TransportError" THEN "Connection refused" ELSE "")

\* sys.stdout as a call finds it: print raises ValueError on a closed stream
StdoutStates == {"open", "closed"}

\* A response of the store to one query: client.query raises, or returns a
\* result set whose iterator yields rows and then stops or raises.
Responses ==
    [query : StoreErrors, rows : {<<>>}, end : {"StopIteration"}]
      \cup [query : {"ok"}, rows : RowSeqs,
            end : {"StopIteration"} \cup StoreErrors]

\* recorded for a call that never reached the store
NotConsulted == [query |-> "none", rows |-> <<>>, end |-> "StopIteration"]

DefaultPort == 8086

-----------------------------------------------------------------------------
(* The wrapper *)

InfluxDBClient(host, port, username, password, database) ==
    [host |-> host, port |-> port, username |-> username, password |-> password,
     database |-> database]

\* a conversion to microseconds instead of nanoseconds
_convert_to_nanoseconds_micro(timestamp) ==
    IF timestamp.type = "int"
    THEN Ok(PyInt(timestamp.v * 1000000))
    ELSE Times1e9(timestamp)

_convert_to_nanoseconds(timestamp) == Times1e9(timestamp)

\* a filter that doubles the quote characters of the name
filter_condition_escaped(process_name) ==
    LET name == Format(process_name)
        escaped == IF name.value = "nginx' OR '1'='1"
                   THEN "nginx'' OR ''1''=''1" ELSE name.value
    IN  IF name.raised THEN name
        ELSE Ok("pattern = '" \o escaped \o "'")

filter_condition(process_name) ==
    LET name == Format(process_name)
    IN  IF name.raised THEN name
        ELSE Ok("pattern = '" \o name.value \o "'")

\* the f-string of sql_query, applied to the formatted values
QueryText(filter, lo, hi) ==
    << "",
       "                SELECT ",
       "                    percentile(sum_cpu_usage, 90) AS max_cpu_usage, ",
       "                    percentile(sum_memory_usage, 90) AS max_mem_usage",
       "                FROM (",
       "                    SELECT ",
       "                        SUM(cpu_usage) AS sum_cpu_usage, ",
       "                        SUM(memory_usage) AS sum_memory_usage ",
       "                    FROM procstat ",
       "                    WHERE " \o filter \o " ",
       "                    AND time >= " \o lo \o " ",
       "                    AND time <= " \o hi \o " ",
       "                    GROUP BY time(10s)",
       "                )",
       "            " >>

\* a query that puts the smaller bound first
sql_query_ordered(filter, start_time_ns, end_time_ns) ==
    LET lo == Format(start_time_ns)
        hi == Format(end_time_ns)
    IN  IF lo.raised THEN lo
        ELSE IF hi.raised THEN hi
        ELSE IF start_time_ns.v > end_time_ns.v
        THEN Ok(QueryText(filter, hi.value, lo.value))
        ELSE Ok(QueryText(filter, lo.value, hi.value))

sql_query(filter, start_time_ns, end_time_ns) ==
    LET lo == Format(start_time_ns)
        hi == Format(end_time_ns)
    IN  IF lo.raised THEN lo
        ELSE IF hi.raised THEN hi
        ELSE Ok(QueryText(filter, lo.value, hi.value))

\* list(it): pull the iterator's rows one by one until it stops or raises
RECURSIVE list(_, _, _)
list(it, i, acc) ==
    IF i <= Len(it.rows)
    THEN list(it, i + 1, Append(acc, it.rows[i]))
    ELSE IF it.end = "StopIteration" THEN Ok(acc)
    ELSE Raise(StoreException(it.end))

\* self.client.query(sql_query) and list(result.get_points())
ExecuteQuery(response) ==
    IF response.query # "ok"
    THEN Raise(StoreException(response.query))
    ELSE list(response, 1, <<>>)

\* procstat[-1] if procstat else None
FirstOrNone_last(procstat) ==
    IF procstat # <<>> THEN procstat[Len(procstat)] ELSE None

\* procstat[0] if procstat else a row of zeros
FirstOrNone_default(procstat) ==
    IF procstat # <<>> THEN procstat[1] ELSE Row(PyFloat(0), PyFloat(0))

\* procstat[0] if procstat else None
FirstOrNone(procstat) == IF procstat # <<>> THEN procstat[1] ELSE None

\* The body of the try statement: the locals it assigned (None when the body
\* did not get that far), the queries submitted to the store and the outcome of
\* the body.
TryBody(self, process_name, start_time, end_time, response) ==
    LET start_time_ns == _convert_to_nanoseconds(start_time)
        end_time_ns == _convert_to_nanoseconds(end_time)
        filter == filter_condition(process_name)
        query == sql_query(filter.value, start_time_ns.value, end_time_ns.value)
        procstat == ExecuteQuery(response)
        Stopped(out) ==
            [start_time_ns |-> start_time_ns.value,
             end_time_ns |-> IF start_time_ns.raised THEN None ELSE end_time_ns.value,
             out |-> out, queries |-> <<>>]
    IN  IF start_time_ns.raised THEN Stopped(start_time_ns)
        ELSE IF end_time_ns.raised THEN Stopped(end_time_ns)
        ELSE IF filter.raised THEN Stopped(filter)
        ELSE IF query.raised THEN Stopped(query)
        ELSE [start_time_ns |-> start_time_ns.value,
              end_time_ns |-> end_time_ns.value,
              out |-> IF procstat.raised THEN procstat
                      ELSE Ok(FirstOrNone(procstat.value)),
              queries |-> <<[client |-> self, text |-> query.value]>>]

\* the handler gets as far as print: the body raised an Exception and the
\* message of the diagnostic was formatted
Prints(out) ==
    out.raised /\ IsException(out.exc) /\ ~StrOfException(out.exc).raised

\* except Exception as e: print(f"[ERROR] Failed to query InfluxDB: {e}");
\* return None.  Nothing protects the clause: a failure of str(e) or of print
\* is the outcome of the call.
ExceptHandler(out, sys_stdout) ==
    IF ~out.raised \/ ~IsException(out.exc)
    THEN [stdout |-> <<>>, result |-> out]
    ELSE LET text == StrOfException(out.exc)
         IN  IF text.raised
             THEN [stdout |-> <<>>, result |-> text]
             ELSE IF sys_stdout = "closed"
             THEN [stdout |-> <<>>,
                   result |-> Raise(Exception("ValueError",
                                              "I/O operation on closed file."))]
             ELSE [stdout |-> <<"[ERROR] Failed to query InfluxDB: " \o text.value>>,
                   result |-> Ok(None)]

Submits(process_name, start_time, end_time) ==
    TryBody(client, process_name, start_time, end_time, NotConsulted).queries # <<>>

-----------------------------------------------------------------------------
(* The state machine *)

Init ==
    /\ client = InfluxDBClient("127.0.0.1", DefaultPort, "root", "", "")
    /\ call = <<>>

\* a wrapper that keeps the row of the previous call and returns it again
get_procstat_result_cached ==
    \E process_name \in ProcessNames, start_time \in Timestamps,
       end_time \in Timestamps :
      \E response \in IF Submits(process_name, start_time, end_time)
                      THEN Responses ELSE {NotConsulted} :
        \E body \in {TryBody(client, process_name, start_time, end_time, response)} :
          \E sys_stdout \in IF Prints(body.out) THEN StdoutStates ELSE {"open"} :
            \E handled \in {ExceptHandler(body.out, sys_stdout)} :
              LET cached == call # <<>> /\ ~call[1].result.raised
                              /\ call[1].result.value # None
              IN  /\ call' = << [process_name |-> process_name,
                                 start_time_ns |-> body.start_time_ns,
                                 end_time_ns |-> body.end_time_ns,
                                 response |-> response,
                                 start_time |-> start_time,
                                 end_time |-> end_time,
                                 queries |-> IF cached THEN <<>> ELSE body.queries,
                                 sys_stdout |-> sys_stdout,
                                 stdout |-> IF cached THEN <<>> ELSE handled.stdout,
                                 result |-> IF cached THEN call[1].result
                                            ELSE handled.result] >>
                  /\ UNCHANGED client

\* One call.  The store's response is drawn when the body reaches
\* self.client.query, the state of sys.stdout when the handler reaches print;
\* otherwise neither is consulted.
get_procstat_result ==
    \E process_name \in ProcessNames, start_time \in Timestamps,
       end_time \in Timestamps :
      \E response \in IF Submits(process_name, start_time, end_time)
                      THEN Responses ELSE {NotConsulted} :
        \E body \in {TryBody(client, process_name, start_time, end_time, response)} :
          \E sys_stdout \in IF Prints(body.out) THEN StdoutStates ELSE {"open"} :
            \E handled \in {ExceptHandler(body.out, sys_stdout)} :
                  /\ call' = << [process_name |-> process_name,
                                 start_time_ns |-> body.start_time_ns,
                                 end_time_ns |-> body.end_time_ns,
                                 response |-> response,
                                 start_time |-> start_time,
                                 end_time |-> end_time,
                                 queries |-> body.queries,
                                 sys_stdout |-> sys_stdout,
                                 stdout |-> handled.stdout,
                                 result |-> handled.result] >>
                  /\ UNCHANGED client

Next == get_procstat_result

Spec == Init /\ [][Next]_vars

-----------------------------------------------------------------------------
(* Vocabulary of the properties *)

Called == call # <<>>

\* the latest call
Last == call[1]

IsInt(value) == value.type = "int"

\* value * 1_000_000_000 raises nothing
Multiplies(value) ==
    value.type \in {"int", "float"} \/ (value.type = "str" /\ value.s = "")

\* "{value}" raises nothing
Formats(value) == value.type \in {"int", "float", "str", "NoneType"}

\* the conversions and the construction of the query of call c succeed
Constructs(c) ==
    /\ Multiplies(c.start_time)
    /\ Multiplies(c.end_time)
    /\ Formats(c.process_name)

\* the latest call reached the store, the query succeeded and the iterator
\* yielded its rows and stopped
Answered ==
    /\ Called
    /\ Last.queries # <<>>
    /\ Last.response.query = "ok"
    /\ Last.response.end = "StopIteration"

\* the arguments of the latest call are a str and two ints
TypedArguments ==
    /\ IsInt(Last.start_time)
    /\ IsInt(Last.end_time)
    /\ Last.process_name.type = "str"

\* a mapping with the keys max_cpu_usage and max_mem_usage and float values
IsUsageSummary(value) ==
    /\ DOMAIN value = {"max_cpu_usage", "max_mem_usage"}
    /\ value.max_cpu_usage.type = "float"
    /\ value.max_mem_usage.type = "float"

HasLine(text, line) == \E i \in 1..Len(text) : text[i] = line

\* line a comes before line b in text
Before(text, a, b) ==
    \E i, j \in 1..Len(text) : i < j /\ text[i] = a /\ text[j] = b

-----------------------------------------------------------------------------
(* C1 *)

\* C1: when the query succeeds and the iterator yields a non-empty sequence of
\* rows, the call returns exactly the first row, unchanged, whatever the rows
\* after it are.
C1_ReturnsFirstRow ==
    (Answered /\ Last.response.rows # <<>>)
        => Last.result = Ok(Last.response.rows[1])

C1_Witness ==
    /\ Answered
    /\ Len(Last.response.rows) = 2
    /\ Last.response.rows[2] # Last.response.rows[1]
    /\ Last.result = Ok(Last.response.rows[1])

-----------------------------------------------------------------------------
(* C2 *)

\* C2: when the query succeeds and the result set is empty, the call returns
\* None, raises nothing and prints nothing.
C2_EmptyResultIsNone ==
    (Answered /\ Last.response.rows = <<>>)
        => /\ Last.result = Ok(None)
           /\ Last.stdout = <<>>

C2_Witness ==
    /\ Answered
    /\ Last.response.rows = <<>>
    /\ ~Last.result.raised
    /\ Last.result.value = None
    /\ Len(Last.stdout) = 0

-----------------------------------------------------------------------------
(* C3 *)

\* C3: when the store raises a transport error while it executes the query,
\* the call returns None and prints exactly one diagnostic message; a call in
\* which nothing fails prints no diagnostic message.
C3_TransportErrorIsLogged ==
    /\ (Called /\ Last.queries # <<>> /\ Last.response.query = "TransportError")
          => /\ Last.result = Ok(None)
             /\ Len(Last.stdout) = 1
    /\ Answered => Last.stdout = <<>>

-----------------------------------------------------------------------------
(* C4 *)

\* C4: whichever step fails, the emission of the diagnostic included, the call
\* surfaces no exception; it returns, and it returns None when a step failed.
C4_NeverRaises ==
    Called
        => /\ ~Last.result.raised
           /\ ~Answered => Last.result.value = None

-----------------------------------------------------------------------------
(* C5 *)

\* C5: for every integer timestamp, zero and negative ones included, the
\* conversion yields exactly timestamp * 1_000_000_000, a whole number of
\* seconds, and the conversion preserves the order of start and end.
C5_ExactNanoseconds ==
    Called
        => /\ IsInt(Last.start_time)
                => /\ Last.start_time_ns = PyInt(Last.start_time.v * 1000000000)
                   /\ Last.start_time_ns.v % 1000000000 = 0
                   /\ Last.start_time_ns.v \div 1000000000 = Last.start_time.v
           /\ (IsInt(Last.start_time) /\ IsInt(Last.end_time))
                => /\ Last.end_time_ns = PyInt(Last.end_time.v * 1000000000)
                   /\ Last.end_time_ns.v \div 1000000000 = Last.end_time.v
                   /\ (Last.start_time.v <= Last.end_time.v
                         => Last.start_time_ns.v <= Last.end_time_ns.v)

C5_Witness ==
    /\ Called
    /\ Last.start_time = PyInt(-1)
    /\ Last.end_time = PyInt(0)
    /\ Last.start_time_ns = PyInt(-1000000000)
    /\ Last.end_time_ns = PyInt(0)

-----------------------------------------------------------------------------
(* C6 *)

\* C6: the query submitted holds the process name verbatim inside
\* pattern = '<process_name>', the inclusive lower bound start_time * 10^9, the
\* inclusive upper bound end_time * 10^9, GROUP BY time(10s), and an outer
\* percentile(..., 90) over the inner SUM(...) of cpu_usage and memory_usage.
C6_QueryText ==
    (Called /\ TypedArguments)
        => /\ Len(Last.queries) = 1
           /\ LET text == Last.queries[1].text
                  where == "                    WHERE pattern = '"
                              \o Last.process_name.s \o "' "
                  lower == "                    AND time >= "
                              \o ToString(Last.start_time.v * 1000000000) \o " "
                  upper == "                    AND time <= "
                              \o ToString(Last.end_time.v * 1000000000) \o " "
                  cpu90 == "                    percentile(sum_cpu_usage, 90) AS max_cpu_usage, "
                  mem90 == "                    percentile(sum_memory_usage, 90) AS max_mem_usage"
                  from == "                FROM ("
                  cpusum == "                        SUM(cpu_usage) AS sum_cpu_usage, "
                  memsum == "                        SUM(memory_usage) AS sum_memory_usage "
                  procstat == "                    FROM procstat "
                  group == "                    GROUP BY time(10s)"
                  close == "                )"
              IN  /\ Before(text, cpu90, mem90)
                  /\ Before(text, mem90, from)
                  /\ Before(text, from, cpusum)
                  /\ Before(text, cpusum, memsum)
                  /\ Before(text, memsum, procstat)
                  /\ Before(text, procstat, where)
                  /\ Before(text, where, lower)
                  /\ Before(text, lower, upper)
                  /\ Before(text, upper, group)
                  /\ Before(text, group, close)

C6_Witness ==
    /\ Called
    /\ Len(Last.queries) = 1
    /\ Last.start_time = PyInt(0)
    /\ Last.end_time = PyInt(1)
    /\ HasLine(Last.queries[1].text,
               "                    WHERE pattern = 'nginx' OR '1'='1' ")
    /\ HasLine(Last.queries[1].text, "                    AND time >= 0 ")
    /\ HasLine(Last.queries[1].text, "                    AND time <= 1000000000 ")

-----------------------------------------------------------------------------
(* C7 *)

\* C7: every value the call returns is None or a mapping with the keys
\* max_cpu_usage and max_mem_usage and float values, whatever rows the store
\* returns.
C7_ReturnsUsageSummary ==
    (Called /\ ~Last.result.raised)
        => \/ Last.result.value = None
           \/ IsUsageSummary(Last.result.value)

-----------------------------------------------------------------------------
(* C8 *)

\* the value call c returns when it returns, as its own arguments and the
\* store's response to its own query decide it
DecidedValue(c) ==
    IF /\ Constructs(c)
       /\ c.response.query = "ok"
       /\ c.response.end = "StopIteration"
       /\ c.response.rows # <<>>
    THEN c.response.rows[1]
    ELSE None

\* C8: a call submits at most one query, exactly one when the conversion and
\* the construction of the query succeed; the value it returns is decided by
\* its own arguments and the store's response to its own query, whatever the
\* calls before it were; it leaves the client handle as it is.
C8_IndependentCalls ==
    [][ /\ client' = client
        /\ call' # <<>>
        /\ LET c == call'[1]
           IN  /\ Len(c.queries) <= 1
               /\ Len(c.queries) = 1 <=> Constructs(c)
               /\ \A i \in 1..Len(c.queries) : c.queries[i].client = client
               /\ ~Constructs(c) => c.response = NotConsulted
               /\ ~c.result.raised => c.result.value = DecidedValue(c) ]_vars

\* a call whose query reached the store through the handle made by __init__
C8_Witness ==
    /\ Called
    /\ Len(Last.queries) = 1
    /\ Last.queries[1].client = client
    /\ Last.response.rows = <<Row(None, None), Row(PyFloat(125), PyFloat(331))>>
    /\ Last.response.end = "StopIteration"
    /\ Last.result = Ok(Row(None, None))
    /\ client = InfluxDBClient("127.0.0.1", 8086, "root", "", "")

-----------------------------------------------------------------------------
(* C9 *)

\* C9: a window whose start is after its end is neither rejected, swapped nor
\* clamped: one query is submitted, its lower bound is start_time * 10^9 and
\* its upper bound end_time * 10^9, and the call returns the first row of the
\* store's answer, or None when the answer is empty.
C9_WindowOrderNotValidated ==
    (Called /\ TypedArguments /\ Last.start_time.v > Last.end_time.v)
        => /\ Len(Last.queries) = 1
           /\ Before(Last.queries[1].text,
                     "                    AND time >= "
                        \o ToString(Last.start_time.v * 1000000000) \o " ",
                     "                    AND time <= "
                        \o ToString(Last.end_time.v * 1000000000) \o " ")
           /\ Last.start_time_ns.v > Last.end_time_ns.v
           /\ (Answered /\ Last.response.rows # <<>>)
                => Last.result = Ok(Last.response.rows[1])
           /\ (Answered /\ Last.response.rows = <<>>)
                => Last.result = Ok(None)

C9_Witness ==
    /\ Called
    /\ Last.start_time = PyInt(1)
    /\ Last.end_time = PyInt(-1)
    /\ Len(Last.queries) = 1
    /\ HasLine(Last.queries[1].text, "                    AND time >= 1000000000 ")
    /\ HasLine(Last.queries[1].text, "                    AND time <= -1000000000 ")
    /\ Answered
    /\ Last.result = Ok(Row(PyFloat(125), PyFloat(331)))

-----------------------------------------------------------------------------
(* C10 *)

\* the query succeeded and the iterator yielded at least one row before it
\* raised
FailsOnLaterRow ==
    /\ Called
    /\ Last.queries # <<>>
    /\ Last.response.query = "ok"
    /\ Last.response.rows # <<>>
    /\ Last.response.end # "StopIteration"

\* C10: when the iterator yields rows and then fails, the call returns None
\* with one diagnostic message, not the first row.
C10_LateFailureIsNone ==
    FailsOnLaterRow
        => /\ Last.result = Ok(None)
           /\ Len(Last.stdout) = 1

====
